---- MODULE Spec2Model ----
(***************************************************************************)
(* Model of the Coverity-on-Polaris migration profiler: the main pipeline  *)
(* (applications, projects, role assignments, branches, project-branch     *)
(* association) with its authentication, pagination, prompts and file      *)
(* writes, driven by an environment that answers the HTTP requests and the *)
(* console prompts.                                                        *)
(*                                                                         *)
(* JavaScript strings are sequences of atoms: an atom is a piece of text   *)
(* that holds none of the separators the code splits on, and "=", ";",     *)
(* " " are atoms of their own.  The value undefined is the sequence        *)
(* Undefined.                                                              *)
(***************************************************************************)
EXTENDS Naturals, Integers, Sequences, FiniteSets, TLC

VARIABLES
  config,      \* the parsed config.json (fixed during a run)
  dirExists,   \* whether the output directory exists
  files,       \* artifact name -> [kind, data]
  rlClosed,    \* whether the readline interface has been closed
  mainPc,      \* position of main: [at, stage]
  pc,          \* stage -> position inside the stage function
  result,      \* stage -> the collection the stage function returned
  authRaw,     \* the authentication response whose token is being extracted
  authResp,    \* history: status and token of the running stage's authentication
  token,       \* the running stage's session token
  offset,      \* the running stage's pagination offset
  acc,         \* the running stage's accumulated collection
  more,        \* the running stage's loop flag
  roleIdx,     \* index of the project whose role assignments are requested
  inflight,    \* outstanding HTTP requests
  authLog,     \* history: authentication requests sent in the run
  authCount,   \* history: stage -> number of authentication requests it sent
  bearerLog,   \* history: (stage, Authorization header) of the resource requests sent
  issued,      \* history: stage -> token the stage extracted
  stageLog,    \* history: requests and writes of the running stage
  report       \* the run of the correlator: position, loaded snapshots, rows

vars == <<config, dirExists, files, rlClosed, mainPc, pc, result, authRaw, authResp,
          token, offset, acc, more, roleIdx, inflight, authLog, authCount,
          bearerLog, issued, stageLog, report>>

(***************************************************************************)
(* Bounds of the model.                                                    *)
(***************************************************************************)
MaxPages == 1          \* full pages the platform returns to one loop
MaxRoleRequests == 2   \* role-assignment requests explored in one run
MaxCookies == 2        \* cookies in one set-cookie header

(***************************************************************************)
(* JavaScript values.                                                      *)
(***************************************************************************)
Undefined == <<"<undefined>">>

Truthy(v) == v # Undefined /\ v # <<>>

IsWhitespace(c) == c \in {" ", "\t"}

RECURSIVE TrimStart(_)
TrimStart(s) ==
  IF s # <<>> /\ IsWhitespace(Head(s)) THEN TrimStart(Tail(s)) ELSE s

RECURSIVE TrimEnd(_)
TrimEnd(s) ==
  IF s # <<>> /\ IsWhitespace(s[Len(s)])
  THEN TrimEnd(SubSeq(s, 1, Len(s) - 1))
  ELSE s

Trim(s) == TrimEnd(TrimStart(s))

LowerAtom(c) ==
  CASE c = "Y" -> "y"
    [] c = "E" -> "e"
    [] c = "S" -> "s"
    [] c = "N" -> "n"
    [] c = "O" -> "o"
    [] OTHER -> c

ToLowerCase(s) == [i \in 1..Len(s) |-> LowerAtom(s[i])]

\* First index of atom c in s, 0 when it does not occur.
IndexOf(s, c) ==
  IF \E i \in 1..Len(s) : s[i] = c
  THEN CHOOSE i \in 1..Len(s) : s[i] = c /\ \A j \in 1..(i - 1) : s[j] # c
  ELSE 0

\* s.split(c)[0]
SplitFirst(s, c) ==
  IF IndexOf(s, c) = 0 THEN s ELSE SubSeq(s, 1, IndexOf(s, c) - 1)

\* s.split(c)[1]
SplitSecond(s, c) ==
  IF IndexOf(s, c) = 0
  THEN Undefined
  ELSE SplitFirst(SubSeq(s, IndexOf(s, c) + 1, Len(s)), c)

\* template.replace(placeholder, value): the first occurrence only; an
\* undefined value is written as the text "undefined".
Replace(template, placeholder, value) ==
  IF IndexOf(template, placeholder) = 0
  THEN template
  ELSE SubSeq(template, 1, IndexOf(template, placeholder) - 1)
       \o (IF value = Undefined THEN <<"undefined">> ELSE value)
       \o SubSeq(template, IndexOf(template, placeholder) + 1, Len(template))


(***************************************************************************)
(* Configuration.                                                          *)
(***************************************************************************)
Customer == <<"acme">>
AuthTemplate == <<"https://", "{customer}", ".polaris/api/auth/authenticate">>
AuthV2Template == <<"https://", "{customer}", ".polaris/api/auth/v2/authenticate">>
ApplicationsTemplate == <<"https://", "{customer}", ".polaris/applications", "?", "page">>
ProjectsTemplate == <<"https://", "{customer}", ".polaris/projects", "?", "page">>
BranchesTemplate == <<"https://", "{customer}", ".polaris/branches", "?", "page[offset]=", "{offset}">>

Password == <<"p", "w">>
AccessToken == <<"t", "k">>
Blank == <<" ">>

GoodConfig ==
  [readable |-> TRUE,
   authUrlTemplate |-> AuthTemplate,
   authUrlV2Template |-> AuthV2Template,
   applicationsUrlTemplate |-> ApplicationsTemplate,
   projectsUrlTemplate |-> ProjectsTemplate,
   branchesUrlTemplate |-> BranchesTemplate,
   customer |-> Customer,
   email |-> <<"me@x">>,
   password |-> Password,
   accesstoken |-> Undefined]

\* (password, accesstoken) pairs of the configurations explored.
CredentialPairs ==
  { <<Password, Undefined>>, <<Password, AccessToken>>,
    <<<<>>, AccessToken>>, <<Blank, AccessToken>>,
    <<Undefined, Undefined>>, <<Blank, Undefined>>, <<Blank, Blank>>,
    <<<<>>, <<>>>> }

\* The configurations explored: every credential pair with the templates in
\* place, and every single defect of a template or of the tenant.
Configs ==
  { [GoodConfig EXCEPT !.password = c[1], !.accesstoken = c[2]] :
      c \in CredentialPairs }
  \cup { [GoodConfig EXCEPT !.readable = FALSE] }
  \cup { [GoodConfig EXCEPT !.authUrlTemplate = v] : v \in {Undefined, <<>>} }
  \cup { [GoodConfig EXCEPT !.authUrlV2Template = v] : v \in {Undefined} }
  \cup { [GoodConfig EXCEPT !.applicationsUrlTemplate = v] : v \in {Undefined} }
  \cup { [GoodConfig EXCEPT !.customer = v] : v \in {Undefined, <<>>} }
  \cup { [GoodConfig EXCEPT !.projectsUrlTemplate = v] : v \in {Undefined, <<>>} }
  \cup { [GoodConfig EXCEPT !.branchesUrlTemplate = v] : v \in {Undefined} }

\* template.replace(...) on a value that is no string raises a TypeError.
ReplaceThrows(template) == template = Undefined

\* template?.replace('{customer}', customer)
OptionalReplace(template, value) ==
  IF template = Undefined THEN Undefined ELSE Replace(template, "{customer}", value)

AuthUrl(cfg) == OptionalReplace(cfg.authUrlTemplate, cfg.customer)
AuthUrlV2(cfg) == OptionalReplace(cfg.authUrlV2Template, cfg.customer)

\* Whether reading and preparing the configuration throws in stage s, before
\* the authentication mode is chosen.
ApplicationsConfigThrows(cfg) ==
  \/ ~cfg.readable
  \/ ~Truthy(cfg.authUrlTemplate)
  \/ ~Truthy(cfg.authUrlV2Template)
  \/ ~Truthy(cfg.applicationsUrlTemplate)
  \/ ~Truthy(cfg.customer)

ProjectsConfigThrows(cfg) ==
  \/ ~cfg.readable
  \/ ReplaceThrows(cfg.authUrlTemplate)
  \/ ReplaceThrows(cfg.authUrlV2Template)
  \/ ReplaceThrows(cfg.projectsUrlTemplate)

RolesConfigThrows(cfg) ==
  \/ ~cfg.readable
  \/ ReplaceThrows(cfg.authUrlTemplate)
  \/ ReplaceThrows(cfg.authUrlV2Template)

BranchesConfigThrows(cfg) ==
  \/ ~cfg.readable
  \/ ~Truthy(AuthUrl(cfg))
  \/ ~Truthy(AuthUrlV2(cfg))
  \/ ~Truthy(OptionalReplace(cfg.branchesUrlTemplate, cfg.customer))

ConfigThrows(s, cfg) ==
  CASE s = "applications" -> ApplicationsConfigThrows(cfg)
    [] s = "projects" -> ProjectsConfigThrows(cfg)
    [] s = "roles" -> RolesConfigThrows(cfg)
    [] s = "branches" -> BranchesConfigThrows(cfg)

(***************************************************************************)
(* Session authenticator.                                                  *)
(***************************************************************************)
UsablePasswordUntrimmed(cfg) == Truthy(cfg.password)

\* config.password && config.password.trim() !== ""
UsablePassword(cfg) == Truthy(cfg.password) /\ Trim(cfg.password) # <<>>

\* config.accesstoken && config.accesstoken.trim() !== ""
UsableAccessToken(cfg) == Truthy(cfg.accesstoken) /\ Trim(cfg.accesstoken) # <<>>

NoAuthConfig == [mode |-> "none", url |-> Undefined, data |-> {}]

AuthConfigTokenFirst(cfg) ==
  IF UsableAccessToken(cfg)
  THEN [mode |-> "token", url |-> AuthUrlV2(cfg), data |-> {"email", "accesstoken"}]
  ELSE IF UsablePassword(cfg)
       THEN [mode |-> "password", url |-> AuthUrl(cfg), data |-> {"email", "password"}]
       ELSE NoAuthConfig

\* The authentication request the code builds: the password flow when the
\* password is usable, else the token flow, else none (the code throws).
AuthConfig(cfg) ==
  IF UsablePassword(cfg)
  THEN [mode |-> "password", url |-> AuthUrl(cfg), data |-> {"email", "password"}]
  ELSE IF UsableAccessToken(cfg)
       THEN [mode |-> "token", url |-> AuthUrlV2(cfg), data |-> {"email", "accesstoken"}]
       ELSE NoAuthConfig

\* axios rejects the promise when there is no response (status 0) or the
\* status is outside 2xx.
Rejects(status) == ~(status >= 200 /\ status < 300)

NoHeader == [present |-> FALSE, cookies |-> <<>>]

StartsWithAccessToken(cookie) ==
  Len(cookie) >= 2 /\ cookie[1] = "access_token" /\ cookie[2] = "="

\* setCookieHeader.find(cookie => cookie.startsWith('access_token='))
FindTokenCookie(cookies) ==
  IF \E i \in 1..Len(cookies) : StartsWithAccessToken(cookies[i])
  THEN cookies[CHOOSE i \in 1..Len(cookies) :
                 /\ StartsWithAccessToken(cookies[i])
                 /\ \A j \in 1..(i - 1) : ~StartsWithAccessToken(cookies[j])]
  ELSE Undefined

\* tokenCookie.split(';')[0].split('=')[1]
CookieToken(cookie) == SplitSecond(SplitFirst(cookie, ";"), "=")

HeaderToken(setCookie) ==
  IF setCookie.present /\ FindTokenCookie(setCookie.cookies) # Undefined
  THEN CookieToken(FindTokenCookie(setCookie.cookies))
  ELSE Undefined

\* The token the code extracts from an authentication response: the header
\* first, the body's jwt when the header gave nothing usable.
ExtractToken(resp) ==
  IF ~Truthy(HeaderToken(resp.setCookie)) /\ Truthy(resp.jwt)
  THEN resp.jwt
  ELSE HeaderToken(resp.setCookie)

AccessCookie(value) ==
  <<"access_token", "=">> \o value \o <<";", "Path", "=", "/">>

LoginTokens == <<"s1", "s2", "s3", "s4", "s5">>

\* What a stage keeps of its authentication: the status and the token found.
NoResponse == [status |-> -1, token |-> Undefined]

NoRaw == [status |-> -1, setCookie |-> NoHeader, jwt |-> Undefined]

AuthThrowsNever(r) == FALSE

AuthThrowsOnStatus(r) == Rejects(r.status)

\* if (!token) throw, after a request that axios did not reject
AuthThrows(r) == Rejects(r.status) \/ ~Truthy(ExtractToken(r))

\* What the platform may answer to the n-th login of a run: a failure, a
\* fresh session token in the cookie or in the body, or no token at all.
AuthOutcomes(n) ==
  { [status |-> 401, setCookie |-> NoHeader, jwt |-> Undefined],
    [status |-> 0, setCookie |-> NoHeader, jwt |-> Undefined],
    [status |-> 200,
     setCookie |-> [present |-> TRUE, cookies |-> <<AccessCookie(<<LoginTokens[n]>>)>>],
     jwt |-> Undefined],
    [status |-> 200, setCookie |-> NoHeader, jwt |-> <<LoginTokens[n]>>],
    [status |-> 200, setCookie |-> NoHeader, jwt |-> Undefined] }


(***************************************************************************)
(* Paginated resources.                                                    *)
(***************************************************************************)
ApplicationsLimit == 25
ProjectsLimit == 500
BranchesLimit == 500

Limit(s) ==
  CASE s = "applications" -> ApplicationsLimit
    [] s = "projects" -> ProjectsLimit
    [] s = "branches" -> BranchesLimit

\* The items of a page: an item is named by its position in the platform's
\* collection, the page at offset off holds the n items that follow it.
Page(off, n) == [i \in 1..n |-> off + i]

\* The page lengths the platform answers with: empty, one item, one short
\* of the page size, the page size, one more than the page size.
PageLens(limit) == {0, 1, limit - 1, limit, limit + 1}

\* The answers to a page request after `full` full pages: no response (0), a
\* status outside 2xx, a 2xx status other than 200, or 200 with a page.
PageOutcomes(limit, full) ==
  { [status |-> st, len |-> 0] : st \in {0, 500, 204} }
  \cup { [status |-> 200, len |-> n] :
           n \in { m \in PageLens(limit) : m = limit => full < MaxPages } }

(***************************************************************************)
(* Role assignments.                                                       *)
(***************************************************************************)
UserAlice == [type |-> "users", name |-> "Alice", email |-> "alice@x.com"]
GroupQA == [type |-> "groups", name |-> "QA", email |-> ""]
RoleOwner == [type |-> "roles", name |-> "owner", email |-> ""]

IncludedOptions == { <<>>, <<UserAlice>>, <<GroupQA, UserAlice>>, <<RoleOwner>> }

RoleOutcomes ==
  { [status |-> st, included |-> <<>>] : st \in {0, 500, 204} }
  \cup { [status |-> 200, included |-> inc] : inc \in IncludedOptions }

FilterNone(included, type) == included

\* included.filter(item => item.type === type)
RECURSIVE FilterType(_, _)
FilterType(included, type) ==
  IF included = <<>> THEN <<>>
  ELSE IF Head(included).type = type
       THEN <<Head(included)>> \o FilterType(Tail(included), type)
       ELSE FilterType(Tail(included), type)

\* project.name of the project that the item number stands for
ProjectName(project) == <<"name", project>>

UserDetails(project, included) ==
  [i \in 1..Len(FilterType(included, "users")) |->
     [projectName |-> ProjectName(project), projectId |-> project,
      userType |-> "User",
      name |-> FilterType(included, "users")[i].name,
      email |-> FilterType(included, "users")[i].email]]

GroupDetails(project, included) ==
  [i \in 1..Len(FilterType(included, "groups")) |->
     [projectName |-> ProjectName(project), projectId |-> project,
      userType |-> "GroupName",
      name |-> FilterType(included, "groups")[i].name,
      email |-> ""]]

(***************************************************************************)
(* Files and prompts.                                                      *)
(***************************************************************************)
Artifacts ==
  { "applicationsList.json", "applicationsList.csv", "projectList.json",
    "userDetailsList.json", "userDetailsList.csv", "branchesList.json",
    "projectBranches.csv", "finalProjectDetails.csv" }

\* Artifacts whose presence the code tests with a prompt.
PromptedArtifacts ==
  { "applicationsList.json", "applicationsList.csv", "branchesList.json" }

\* Artifacts the code writes without testing their presence.
UntestedArtifacts ==
  { "userDetailsList.json", "userDetailsList.csv", "projectBranches.csv",
    "finalProjectDetails.csv" }

NoFile == [kind |-> "none", data |-> <<>>]
OldFile(d) == [kind |-> "old", data |-> d]
NewFile(d) == [kind |-> "new", data |-> d]

\* projectList.json before the run: absent, two projects, an empty list, or
\* text that is no JSON.
ProjectListStates ==
  { NoFile, OldFile(<<901, 902>>), OldFile(<<>>), [kind |-> "garbage", data |-> <<>>] }

\* What an earlier run left in an artifact: one item, in the details files
\* one principal record.
OldContent(f) ==
  IF f \in {"userDetailsList.json", "userDetailsList.csv"}
  THEN << [projectName |-> <<"name", 900>>, projectId |-> 900, userType |-> "User",
           name |-> "Old", email |-> ""] >>
  ELSE <<900>>

InitialFiles ==
  { [f \in Artifacts |->
       IF f = "projectList.json" THEN p
       ELSE IF f \in prompted \/ (f \in UntestedArtifacts /\ untested)
            THEN OldFile(OldContent(f))
            ELSE NoFile] :
      prompted \in SUBSET PromptedArtifacts,
      p \in ProjectListStates,
      untested \in BOOLEAN }

ExistsWritten(f) == files[f].kind = "new"

\* fs.access(path) succeeds
Exists(f) == files[f].kind # "none"

Answers == { <<"y", "e", "s">>, <<"Y">>, <<"n", "o">>, <<>> }

AcceptedUnlessNo(answer) == ToLowerCase(answer) \notin { <<"n", "o">>, <<"n">> }

\* ['yes', 'y'].includes(answer.toLowerCase())
Accepted(answer) == ToLowerCase(answer) \in { <<"y", "e", "s">>, <<"y">> }

(***************************************************************************)
(* The pipeline.                                                           *)
(***************************************************************************)
Stages == <<"applications", "projects", "roles", "branches", "associate">>
StageSet == { Stages[i] : i \in 1..Len(Stages) }

StageIndex(s) == CHOOSE i \in 1..Len(Stages) : Stages[i] = s

\* Stages whose function closes the readline interface in its finally block.
ClosesReadline(s) == s \in {"applications", "branches"}

Event(kind, off, tok, status, len, file) ==
  [kind |-> kind, off |-> off, tok |-> tok, status |-> status, len |-> len,
   file |-> file]

\* The correlator before it is started.
ReportIdle ==
  [pc |-> "idle", projects |-> <<>>, details |-> <<>>, branches |-> <<>>,
   branchesRead |-> FALSE, applications |-> <<>>, csvData |-> <<>>]

Logins == authCount["applications"] + authCount["projects"]
          + authCount["roles"] + authCount["branches"]

Init ==
  /\ config \in Configs
  /\ files \in InitialFiles
  /\ dirExists \in BOOLEAN
  /\ ~dirExists => \A f \in Artifacts : files[f] = NoFile
  /\ rlClosed = FALSE
  /\ mainPc = [at |-> "call", stage |-> "applications"]
  /\ pc = [s \in StageSet |-> "idle"]
  /\ result = [s \in StageSet |-> <<>>]
  /\ authRaw = NoRaw
  /\ authResp = NoResponse
  /\ token = Undefined
  /\ offset = 0
  /\ acc = <<>>
  /\ more = FALSE
  /\ roleIdx = 1
  /\ inflight = {}
  /\ authLog = {}
  /\ authCount = [s \in StageSet |-> 0]
  /\ bearerLog = {}
  /\ issued = [s \in StageSet |-> Undefined]
  /\ stageLog = <<>>
  /\ report = ReportIdle

locals == <<authResp, token, offset, acc, more, roleIdx>>
history == <<authLog, authCount, bearerLog, issued>>
world == <<config, dirExists, files, authRaw>>

\* The stage function returns value (its finally block runs first).
Return(s, value) ==
  /\ pc' = [pc EXCEPT ![s] = "returned"]
  /\ result' = [result EXCEPT ![s] = value]
  /\ rlClosed' = (rlClosed \/ ClosesReadline(s))

\* The stage function is being awaited by main and has not returned.
Running(s) == pc[s] \notin {"idle", "returned", "hung"}

SettledOnCall(s) == pc[s] # "idle"

\* main awaits the stage function: it goes on when the function has returned.
Settled(s) == pc[s] = "returned"

\* main calls the function of its current stage.
MainCall ==
  /\ mainPc.at = "call"
  /\ pc' = [pc EXCEPT ![mainPc.stage] = "start"]
  /\ mainPc' = [mainPc EXCEPT !.at = "await"]
  /\ authResp' = NoResponse
  /\ token' = Undefined
  /\ offset' = 0
  /\ acc' = <<>>
  /\ more' = FALSE
  /\ roleIdx' = 1
  /\ stageLog' = <<>>
  /\ UNCHANGED <<world, report, rlClosed, result, inflight, history>>

MainResumeUnchecked ==
  /\ mainPc.at = "await"
  /\ Settled(mainPc.stage)
  /\ mainPc' =
       IF mainPc.stage = "associate"
       THEN [at |-> "done", stage |-> mainPc.stage]
       ELSE [at |-> "call", stage |-> Stages[StageIndex(mainPc.stage) + 1]]
  /\ UNCHANGED <<world, report, rlClosed, pc, result, locals, inflight, history, stageLog>>

\* if (all.length === 0) return; else the next stage.
MainResume ==
  /\ mainPc.at = "await"
  /\ Settled(mainPc.stage)
  /\ mainPc' =
       IF mainPc.stage = "associate" \/ Len(result[mainPc.stage]) = 0
       THEN [at |-> "done", stage |-> mainPc.stage]
       ELSE [at |-> "call", stage |-> Stages[StageIndex(mainPc.stage) + 1]]
  /\ UNCHANGED <<world, report, rlClosed, pc, result, locals, inflight, history, stageLog>>


(***************************************************************************)
(* Steps shared by the stage functions (the code repeats them per stage).  *)
(***************************************************************************)
Outstanding(s, kind) == [stage |-> s, kind |-> kind]

Answered(log, status, len) ==
  [log EXCEPT ![Len(log)] = [@ EXCEPT !.status = status, !.len = len]]

\* rl.question on an interface that was closed: the runtime either throws
\* (ERR_USE_AFTER_CLOSE) or never calls back.
ClosedQuestionOutcomes == {"throws", "hangs"}

\* The overwrite prompt for an artifact that exists: unlink it on yes or y,
\* else return the empty collection.
Prompt(s, position, file, next) ==
  /\ pc[s] = position
  /\ IF rlClosed
     THEN /\ \E o \in ClosedQuestionOutcomes :
               IF o = "throws"
               THEN Return(s, <<>>)
               ELSE /\ pc' = [pc EXCEPT ![s] = "hung"]
                    /\ UNCHANGED <<result, rlClosed>>
          /\ UNCHANGED <<files, stageLog>>
     ELSE \E answer \in Answers :
            IF Accepted(answer)
            THEN /\ files' = [files EXCEPT ![file] = NoFile]
                 /\ pc' = [pc EXCEPT ![s] = next]
                 /\ stageLog' = Append(stageLog, Event("unlink", 0, answer, 0, 0, file))
                 /\ UNCHANGED <<result, rlClosed>>
            ELSE /\ Return(s, <<>>)
                 /\ UNCHANGED <<files, stageLog>>
  /\ UNCHANGED <<config, report, dirExists, authRaw, mainPc, locals, inflight, history>>

\* Read config.json, prepare the URLs, choose the authentication mode and
\* send the authentication request; any throw ends the stage with [].
Authenticate(s) ==
  /\ pc[s] = "readConfig"
  /\ IF ConfigThrows(s, config) \/ AuthConfig(config).mode = "none"
     THEN /\ Return(s, <<>>)
          /\ UNCHANGED <<inflight, authLog, authCount, stageLog>>
     ELSE /\ pc' = [pc EXCEPT ![s] = "authSent"]
          /\ inflight' = inflight \cup {Outstanding(s, "auth")}
          /\ authLog' = authLog \cup
               {[stage |-> s, url |-> AuthConfig(config).url,
                 data |-> AuthConfig(config).data]}
          /\ authCount' = [authCount EXCEPT ![s] = @ + 1]
          /\ stageLog' = Append(stageLog, Event("auth", 0, Undefined, -1, 0, ""))
          /\ UNCHANGED <<result, rlClosed>>
  /\ UNCHANGED <<world, report, mainPc, locals, bearerLog, issued>>

\* The authentication response: a rejected request or a response without a
\* token ends the stage with []; else the loop variables are initialised.
AuthResponse(s, r) ==
  /\ pc[s] = "authSent"
  /\ inflight' = inflight \ {Outstanding(s, "auth")}
  /\ authResp' = [status |-> r.status, token |-> ExtractToken(r)]
  /\ stageLog' = Answered(stageLog, r.status, 0)
  /\ IF AuthThrows(r)
     THEN /\ Return(s, <<>>)
          /\ UNCHANGED <<token, issued, offset, acc, more, roleIdx>>
     ELSE /\ token' = ExtractToken(r)
          /\ issued' = [issued EXCEPT ![s] = ExtractToken(r)]
          /\ offset' = 0
          /\ acc' = <<>>
          /\ more' = TRUE
          /\ roleIdx' = 1
          /\ pc' = [pc EXCEPT ![s] = "loop"]
          /\ UNCHANGED <<result, rlClosed>>
  /\ UNCHANGED <<world, report, mainPc, authLog, authCount, bearerLog>>

AuthorizationOfConfig(tok) == <<"Bearer", " ">> \o AccessToken

\* 'Authorization': `Bearer ${token}`
Authorization(tok) == <<"Bearer", " ">> \o tok

\* One page request of the loop, with the bearer token and the offset.
RequestPage(s) ==
  /\ pc[s] = "loop"
  /\ more
  /\ pc' = [pc EXCEPT ![s] = "pageSent"]
  /\ inflight' = inflight \cup {Outstanding(s, "page")}
  /\ bearerLog' = bearerLog \cup {[stage |-> s, header |-> Authorization(token)]}
  /\ stageLog' = Append(stageLog, Event("page", offset, token, -1, 0, ""))
  /\ UNCHANGED <<world, report, rlClosed, mainPc, result, locals, authLog, authCount, issued>>

AccumulateLatest(all, page) == page

\* all = [...all, ...page]
Accumulate(all, page) == all \o page

MorePagesAtLeast(status, len, limit) == status = 200 /\ len >= limit

MorePagesOnSuccess(status, len, limit) == status = 200

\* more = data.length === limit (set to false on a status other than 200)
MorePages(status, len, limit) == status = 200 /\ len = limit

NextOffsetStuck(off, status, limit) == off

\* offset += limit, on a 200 response only
NextOffset(off, status, limit) == IF status = 200 THEN off + limit ELSE off

\* The body of the loop after a response that did not throw.
LoopStep(s, r) ==
  /\ acc' = IF r.status = 200 THEN Accumulate(acc, Page(offset, r.len)) ELSE acc
  /\ more' = MorePages(r.status, r.len, Limit(s))
  /\ offset' = NextOffset(offset, r.status, Limit(s))
  /\ pc' = [pc EXCEPT ![s] = "loop"]
  /\ UNCHANGED <<result, rlClosed>>

\* The page response in a loop whose request is not guarded: a rejected
\* request is caught by the stage's catch block, which returns [].
PageResponse(s, r) ==
  /\ pc[s] = "pageSent"
  /\ inflight' = inflight \ {Outstanding(s, "page")}
  /\ stageLog' = Answered(stageLog, r.status, r.len)
  /\ IF Rejects(r.status)
     THEN /\ Return(s, <<>>)
          /\ UNCHANGED <<acc, more, offset>>
     ELSE LoopStep(s, r)
  /\ UNCHANGED <<world, report, mainPc, authResp, token, roleIdx, history>>

\* The page response in the branches loop: the request sits in a try block
\* of its own, a rejected request only ends the loop.
GuardedPageResponse(s, r) ==
  /\ pc[s] = "pageSent"
  /\ inflight' = inflight \ {Outstanding(s, "page")}
  /\ stageLog' = Answered(stageLog, r.status, r.len)
  /\ IF Rejects(r.status)
     THEN /\ more' = FALSE
          /\ pc' = [pc EXCEPT ![s] = "loop"]
          /\ UNCHANGED <<acc, offset, result, rlClosed>>
     ELSE LoopStep(s, r)
  /\ UNCHANGED <<world, report, mainPc, authResp, token, roleIdx, history>>

\* Write the stage's artifacts after the loop and return the collection.
Persist(s, written) ==
  /\ pc[s] = "loop"
  /\ ~more
  /\ files' = [f \in Artifacts |-> IF f \in written THEN NewFile(acc) ELSE files[f]]
  /\ stageLog' = stageLog \o
       [i \in 1..Cardinality(written) |-> Event("write", 0, Undefined, 0, 0, "artifact")]
  /\ Return(s, acc)
  /\ UNCHANGED <<config, report, dirExists, authRaw, mainPc, locals, inflight, history>>

(***************************************************************************)
(* fetchApplicationsWithAuth                                               *)
(***************************************************************************)
ApplicationsStart ==
  /\ pc["applications"] = "start"
  /\ dirExists' = TRUE
  /\ pc' = [pc EXCEPT !["applications"] =
              IF Exists("applicationsList.json") THEN "askJson"
              ELSE IF Exists("applicationsList.csv") THEN "askCsv"
              ELSE "readConfig"]
  /\ UNCHANGED <<config, report, files, authRaw, rlClosed, mainPc, result, locals,
                 inflight, history, stageLog>>

ApplicationsPromptJson ==
  /\ pc["applications"] = "askJson"
  /\ Prompt("applications", "askJson", "applicationsList.json",
            IF Exists("applicationsList.csv") THEN "askCsv" ELSE "readConfig")

ApplicationsPromptCsv ==
  /\ pc["applications"] = "askCsv"
  /\ Prompt("applications", "askCsv", "applicationsList.csv", "readConfig")

ApplicationsAuthenticate ==
  /\ pc["applications"] = "readConfig"
  /\ Authenticate("applications")

ApplicationsAuthResponse ==
  /\ pc["applications"] = "authSent"
  /\ \E r \in AuthOutcomes(Logins) : AuthResponse("applications", r)

ApplicationsRequestPage ==
  /\ pc["applications"] = "loop"
  /\ RequestPage("applications")

ApplicationsPageResponse ==
  /\ pc["applications"] = "pageSent"
  /\ \E r \in PageOutcomes(ApplicationsLimit, offset \div ApplicationsLimit) :
       PageResponse("applications", r)

ApplicationsPersist ==
  /\ pc["applications"] = "loop"
  /\ Persist("applications", {"applicationsList.json", "applicationsList.csv"})

(***************************************************************************)
(* fetchProjectsWithAuth                                                   *)
(***************************************************************************)
\* projectList.json is read when it exists (text that is no JSON throws);
\* the projects are fetched only when it does not exist.
ProjectsStart ==
  /\ pc["projects"] = "start"
  /\ dirExists' = TRUE
  /\ IF Exists("projectList.json")
     THEN Return("projects",
                 IF files["projectList.json"].kind = "garbage"
                 THEN <<>>
                 ELSE files["projectList.json"].data)
     ELSE /\ pc' = [pc EXCEPT !["projects"] = "readConfig"]
          /\ UNCHANGED <<result, rlClosed>>
  /\ UNCHANGED <<config, report, files, authRaw, mainPc, locals, inflight, history, stageLog>>

ProjectsAuthenticate ==
  /\ pc["projects"] = "readConfig"
  /\ Authenticate("projects")

ProjectsAuthResponse ==
  /\ pc["projects"] = "authSent"
  /\ \E r \in AuthOutcomes(Logins) : AuthResponse("projects", r)

ProjectsRequestPage ==
  /\ pc["projects"] = "loop"
  /\ RequestPage("projects")

ProjectsPageResponse ==
  /\ pc["projects"] = "pageSent"
  /\ \E r \in PageOutcomes(ProjectsLimit, offset \div ProjectsLimit) :
       PageResponse("projects", r)

ProjectsPersist ==
  /\ pc["projects"] = "loop"
  /\ Persist("projects", {"projectList.json"})

(***************************************************************************)
(* fetchRoleAssignments                                                    *)
(***************************************************************************)
RolesStart ==
  /\ pc["roles"] = "start"
  /\ pc' = [pc EXCEPT !["roles"] = "readConfig"]
  /\ UNCHANGED <<world, report, rlClosed, mainPc, result, locals, inflight, history, stageLog>>

RolesAuthenticate ==
  /\ pc["roles"] = "readConfig"
  /\ Authenticate("roles")

RolesAuthResponse ==
  /\ pc["roles"] = "authSent"
  /\ \E r \in AuthOutcomes(Logins) : AuthResponse("roles", r)

\* for (const project of allProjects): one request per project
RolesRequest ==
  /\ pc["roles"] = "loop"
  /\ roleIdx <= Len(result["projects"])
  /\ roleIdx <= MaxRoleRequests
  /\ pc' = [pc EXCEPT !["roles"] = "roleSent"]
  /\ inflight' = inflight \cup {Outstanding("roles", "role")}
  /\ bearerLog' = bearerLog \cup {[stage |-> "roles", header |-> Authorization(token)]}
  /\ stageLog' = Append(stageLog,
                        Event("role", result["projects"][roleIdx], token, -1, 0, ""))
  /\ UNCHANGED <<world, report, rlClosed, mainPc, result, locals, authLog, authCount, issued>>

RolesResponse ==
  \E r \in RoleOutcomes :
    /\ pc["roles"] = "roleSent"
    /\ inflight' = inflight \ {Outstanding("roles", "role")}
    /\ stageLog' = Answered(stageLog, r.status, 0)
    /\ IF Rejects(r.status)
       THEN /\ Return("roles", <<>>)
            /\ UNCHANGED <<acc, roleIdx>>
       ELSE /\ acc' = IF r.status = 200
                      THEN acc \o UserDetails(result["projects"][roleIdx], r.included)
                               \o GroupDetails(result["projects"][roleIdx], r.included)
                      ELSE acc
            /\ roleIdx' = roleIdx + 1
            /\ pc' = [pc EXCEPT !["roles"] = "loop"]
            /\ UNCHANGED <<result, rlClosed>>
    /\ UNCHANGED <<world, report, mainPc, authResp, token, offset, more, history>>

RolesPersist ==
  /\ pc["roles"] = "loop"
  /\ roleIdx > Len(result["projects"])
  /\ files' = [f \in Artifacts |->
                 IF f \in {"userDetailsList.json", "userDetailsList.csv"}
                 THEN NewFile(acc) ELSE files[f]]
  /\ stageLog' = stageLog \o
       <<Event("write", 0, Undefined, 0, 0, "artifact"),
         Event("write", 0, Undefined, 0, 0, "artifact")>>
  /\ Return("roles", acc)
  /\ UNCHANGED <<config, report, dirExists, authRaw, mainPc, locals, inflight, history>>

(***************************************************************************)
(* fetchBranchesWithAuth                                                   *)
(***************************************************************************)
BranchesStart ==
  /\ pc["branches"] = "start"
  /\ dirExists' = TRUE
  /\ pc' = [pc EXCEPT !["branches"] =
              IF Exists("branchesList.json") THEN "askJson" ELSE "readConfig"]
  /\ UNCHANGED <<config, report, files, authRaw, rlClosed, mainPc, result, locals,
                 inflight, history, stageLog>>

BranchesPromptJson ==
  /\ pc["branches"] = "askJson"
  /\ Prompt("branches", "askJson", "branchesList.json", "readConfig")

BranchesAuthenticate ==
  /\ pc["branches"] = "readConfig"
  /\ Authenticate("branches")

BranchesAuthResponse ==
  /\ pc["branches"] = "authSent"
  /\ \E r \in AuthOutcomes(Logins) : AuthResponse("branches", r)

BranchesRequestPage ==
  /\ pc["branches"] = "loop"
  /\ RequestPage("branches")

BranchesPageResponse ==
  /\ pc["branches"] = "pageSent"
  /\ \E r \in PageOutcomes(BranchesLimit, offset \div BranchesLimit) :
       GuardedPageResponse("branches", r)

BranchesPersist ==
  /\ pc["branches"] = "loop"
  /\ Persist("branches", {"branchesList.json"})

(***************************************************************************)
(* associateProjectsToBranches                                             *)
(***************************************************************************)
\* projectBranches.csv is written, one row per project, without a prompt.
Associate ==
  /\ pc["associate"] = "start"
  /\ files' = [files EXCEPT !["projectBranches.csv"] = NewFile(result["projects"])]
  /\ stageLog' = Append(stageLog, Event("write", 0, Undefined, 0, 0, "artifact"))
  /\ Return("associate", <<>>)
  /\ UNCHANGED <<config, report, dirExists, authRaw, mainPc, locals, inflight, history>>

Next ==
  \/ MainCall
  \/ MainResume
  \/ ApplicationsStart
  \/ ApplicationsPromptJson
  \/ ApplicationsPromptCsv
  \/ ApplicationsAuthenticate
  \/ ApplicationsAuthResponse
  \/ ApplicationsRequestPage
  \/ ApplicationsPageResponse
  \/ ApplicationsPersist
  \/ ProjectsStart
  \/ ProjectsAuthenticate
  \/ ProjectsAuthResponse
  \/ ProjectsRequestPage
  \/ ProjectsPageResponse
  \/ ProjectsPersist
  \/ RolesStart
  \/ RolesAuthenticate
  \/ RolesAuthResponse
  \/ RolesRequest
  \/ RolesResponse
  \/ RolesPersist
  \/ BranchesStart
  \/ BranchesPromptJson
  \/ BranchesAuthenticate
  \/ BranchesAuthResponse
  \/ BranchesRequestPage
  \/ BranchesPageResponse
  \/ BranchesPersist
  \/ Associate

Spec == Init /\ [][Next]_vars

\* The run with progress: an awaited promise settles when its request is
\* answered, and the code between two awaits runs to the next await, so a
\* step that is possible is eventually taken.
FairSpec == Spec /\ WF_vars(Next)

(***************************************************************************)
(* Token extraction on its own: every response of a bounded family is      *)
(* handed to the extraction code.                                          *)
(***************************************************************************)
CookieStrings ==
  { <<"sid", "=", "x">>,
    AccessCookie(<<>>),
    AccessCookie(<<"h1">>),
    AccessCookie(<<"h1", "=", "h2">>),
    <<"access_token", "=", "h3">> }

SeqsUpTo(S, n) == UNION { [1..k -> S] : k \in 0..n }

TokenResponses ==
  { [status |-> 200, setCookie |-> h, jwt |-> j] :
      h \in {NoHeader} \cup
            { [present |-> TRUE, cookies |-> c] : c \in SeqsUpTo(CookieStrings, MaxCookies) },
      j \in { Undefined, <<>>, <<"j1">> } }

InitToken ==
  /\ config = GoodConfig
  /\ files = [f \in Artifacts |-> NoFile]
  /\ dirExists = TRUE
  /\ rlClosed = FALSE
  /\ mainPc = [at |-> "extract", stage |-> "applications"]
  /\ pc = [s \in StageSet |-> "idle"]
  /\ result = [s \in StageSet |-> <<>>]
  /\ authRaw \in TokenResponses
  /\ authResp = NoResponse
  /\ token = Undefined
  /\ offset = 0
  /\ acc = <<>>
  /\ more = FALSE
  /\ roleIdx = 1
  /\ inflight = {}
  /\ authLog = {}
  /\ authCount = [s \in StageSet |-> 0]
  /\ bearerLog = {}
  /\ issued = [s \in StageSet |-> Undefined]
  /\ stageLog = <<>>
  /\ report = ReportIdle

\* let token; ... token = cookie value, else data.jwt
ExtractStep ==
  /\ mainPc.at = "extract"
  /\ token' = ExtractToken(authRaw)
  /\ authResp' = [status |-> authRaw.status, token |-> ExtractToken(authRaw)]
  /\ mainPc' = [mainPc EXCEPT !.at = "extracted"]
  /\ UNCHANGED <<world, report, rlClosed, pc, result, offset, acc, more, roleIdx,
                 inflight, history, stageLog>>

NextToken == ExtractStep

SpecToken == InitToken /\ [][NextToken]_vars

(***************************************************************************)
(* The project records of the three project collectors: main.mjs,          *)
(* scripts/getProjectProperties.mjs and scripts/getProjectUserInformation  *)
(* .mjs each format a page of platform projects and write projectList.json.*)
(***************************************************************************)
MaxProjectsPerPage == 2

\* A JavaScript object as the sequence of its key-value pairs.
NoProperties == <<>>
TeamProperties == << <<"team", "core">> >>

\* { key: 'value' }
Placeholder == << <<"key", "value">> >>

PlatformProjects ==
  { [id |-> i,
     attributes |-> [name |-> <<"name", i>>, type |-> "git", properties |-> p],
     related |-> <<"branches", i>>] :
      i \in {"10", "7"}, p \in {NoProperties, TeamProperties} }

ProjectPages == SeqsUpTo(PlatformProjects, MaxProjectsPerPage)

\* Object.keys(properties).length ? properties : { key: 'value' }
PropertiesOrPlaceholder(properties) ==
  IF Len(properties) # 0 THEN properties ELSE Placeholder

\* main.mjs: {id, name, properties, branches}
FormatMain(project) ==
  [id |-> project.id, name |-> project.attributes.name,
   properties |-> PropertiesOrPlaceholder(project.attributes.properties),
   branches |-> project.related]

\* getProjectProperties.mjs: {id, type, properties, name, branches}
FormatProperties(project) ==
  [id |-> project.id, type |-> project.attributes.type,
   properties |-> PropertiesOrPlaceholder(project.attributes.properties),
   name |-> project.attributes.name, branches |-> project.related]

\* getProjectUserInformation.mjs: {id, name}
FormatUserInformation(project) ==
  [id |-> project.id, name |-> project.attributes.name]

Collectors == {"main.mjs", "getProjectProperties.mjs", "getProjectUserInformation.mjs"}

InitProjects ==
  /\ config = GoodConfig
  /\ files = [f \in Artifacts |-> NoFile]
  /\ dirExists = TRUE
  /\ rlClosed = FALSE
  /\ mainPc \in { [at |-> "collect", stage |-> c] : c \in Collectors }
  /\ pc = [s \in StageSet |-> "idle"]
  /\ result = [s \in StageSet |-> <<>>]
  /\ authRaw = NoRaw
  /\ authResp = NoResponse
  /\ token = Undefined
  /\ offset = 0
  /\ acc = <<>>
  /\ more = FALSE
  /\ roleIdx = 1
  /\ inflight = {}
  /\ authLog = {}
  /\ authCount = [s \in StageSet |-> 0]
  /\ bearerLog = {}
  /\ issued = [s \in StageSet |-> Undefined]
  /\ stageLog = <<>>
  /\ report = ReportIdle

\* A page of the platform is received (kept in stageLog) and its projects are
\* formatted into allProjects.
Collected(collector, page, formatted) ==
  /\ mainPc = [at |-> "collect", stage |-> collector]
  /\ stageLog' = Append(stageLog, page)
  /\ acc' = acc \o formatted
  /\ mainPc' = [mainPc EXCEPT !.at = "collected"]
  /\ UNCHANGED <<world, report, rlClosed, pc, result, authResp, token, offset, more,
                 roleIdx, inflight, history>>

CollectMain ==
  \E page \in ProjectPages :
    Collected("main.mjs", page, [i \in 1..Len(page) |-> FormatMain(page[i])])

CollectProperties ==
  \E page \in ProjectPages :
    Collected("getProjectProperties.mjs", page,
              [i \in 1..Len(page) |-> FormatProperties(page[i])])

CollectUserInformation ==
  \E page \in ProjectPages :
    Collected("getProjectUserInformation.mjs", page,
              [i \in 1..Len(page) |-> FormatUserInformation(page[i])])

\* fs.writeFile(projectListPath, JSON.stringify(allProjects, null, 2))
WriteProjectList ==
  /\ mainPc.at = "collected"
  /\ files' = [files EXCEPT !["projectList.json"] = NewFile(acc)]
  /\ mainPc' = [mainPc EXCEPT !.at = "written"]
  /\ UNCHANGED <<config, report, dirExists, authRaw, rlClosed, pc, result, locals,
                 inflight, history, stageLog>>

NextProjects ==
  \/ CollectMain
  \/ CollectProperties
  \/ CollectUserInformation
  \/ WriteProjectList

SpecProjects == InitProjects /\ [][NextProjects]_vars

(***************************************************************************)
(* The application records and the tabular export of the applications      *)
(* collector: a page of platform applications is formatted, written to     *)
(* applicationsList.json and flattened into applicationsList.csv.          *)
(***************************************************************************)
MaxApplicationsPerPage == 2

\* The applications of the platform, each with its related projects in the
\* order of relationships.projects.data.
PlatformApplications ==
  { [id |-> a[1],
     attributes |-> [name |-> <<"name", a[1]>>, description |-> d],
     related |-> [j \in 1..Len(a[2]) |-> [id |-> a[2][j], type |-> "projects"]]] :
      a \in { <<"a0", <<>>>>, <<"a1", <<"10">>>>, <<"a2", <<"7", "10">>>>,
              <<"a3", <<"10", "7", "404">>>> },
      d \in {"", "text"} }

ApplicationPages == SeqsUpTo(PlatformApplications, MaxApplicationsPerPage)

\* {id, name, description, projects: relationships.projects.data.map(project => project.id)}
FormatApplication(application) ==
  [id |-> application.id, name |-> application.attributes.name,
   description |-> application.attributes.description,
   projects |-> [j \in 1..Len(application.related) |-> application.related[j].id]]

ApplicationRowsOfFirst(application) ==
  IF application.projects = <<>> THEN <<>>
  ELSE << [id |-> application.id, name |-> application.name,
           description |-> application.description,
           project |-> application.projects[1]] >>

\* application.projects.forEach(project => csvData.push({id, name, description, project}))
ApplicationRows(application) ==
  [j \in 1..Len(application.projects) |->
     [id |-> application.id, name |-> application.name,
      description |-> application.description, project |-> application.projects[j]]]

\* allApplications.forEach(application => ...)
RECURSIVE ApplicationsCsvData(_)
ApplicationsCsvData(applications) ==
  IF applications = <<>> THEN <<>>
  ELSE ApplicationRows(Head(applications)) \o ApplicationsCsvData(Tail(applications))

InitApplications ==
  /\ config = GoodConfig
  /\ files = [f \in Artifacts |-> NoFile]
  /\ dirExists = TRUE
  /\ rlClosed = FALSE
  /\ mainPc = [at |-> "collect", stage |-> "applications"]
  /\ pc = [s \in StageSet |-> "idle"]
  /\ result = [s \in StageSet |-> <<>>]
  /\ authRaw = NoRaw
  /\ authResp = NoResponse
  /\ token = Undefined
  /\ offset = 0
  /\ acc = <<>>
  /\ more = FALSE
  /\ roleIdx = 1
  /\ inflight = {}
  /\ authLog = {}
  /\ authCount = [s \in StageSet |-> 0]
  /\ bearerLog = {}
  /\ issued = [s \in StageSet |-> Undefined]
  /\ stageLog = <<>>
  /\ report = ReportIdle

\* A page of the platform is received (kept in stageLog) and its applications
\* are formatted into allApplications.
CollectApplications ==
  \E page \in ApplicationPages :
    /\ mainPc.at = "collect"
    /\ stageLog' = Append(stageLog, page)
    /\ acc' = acc \o [i \in 1..Len(page) |-> FormatApplication(page[i])]
    /\ mainPc' = [mainPc EXCEPT !.at = "collected"]
    /\ UNCHANGED <<world, report, rlClosed, pc, result, authResp, token, offset, more,
                   roleIdx, inflight, history>>

\* fs.writeFile(applicationsListPath, JSON.stringify(allApplications, null, 2))
WriteApplicationsJson ==
  /\ mainPc.at = "collected"
  /\ files' = [files EXCEPT !["applicationsList.json"] = NewFile(acc)]
  /\ mainPc' = [mainPc EXCEPT !.at = "jsonWritten"]
  /\ UNCHANGED <<config, report, dirExists, authRaw, rlClosed, pc, result, locals,
                 inflight, history, stageLog>>

\* csvWriter.writeRecords(csvData)
WriteApplicationsCsv ==
  /\ mainPc.at = "jsonWritten"
  /\ files' = [files EXCEPT !["applicationsList.csv"] = NewFile(ApplicationsCsvData(acc))]
  /\ mainPc' = [mainPc EXCEPT !.at = "csvWritten"]
  /\ UNCHANGED <<config, report, dirExists, authRaw, rlClosed, pc, result, locals,
                 inflight, history, stageLog>>

NextApplications ==
  \/ CollectApplications
  \/ WriteApplicationsJson
  \/ WriteApplicationsCsv

SpecApplications == InitApplications /\ [][NextApplications]_vars

(***************************************************************************)
(* createReport.mjs: the correlator.                                       *)
(***************************************************************************)
MaxBranches == 6     \* branches in the branches snapshot
MaxPrincipals == 2   \* principal records in the details snapshot

\* const maxBranches = 5
MaxBranchSlots == 5

Sentinel == "No Application Name"

ProjectWeb == [id |-> "10", name |-> "web", type |-> "git"]
ProjectApi == [id |-> "7", name |-> "api", type |-> "git"]
ProjectCli == [id |-> "p-a", name |-> "cli", type |-> "git"]

\* The project id 404 is in no projects snapshot.
ProjectLists ==
  { <<>>, <<ProjectWeb>>, <<ProjectWeb, ProjectApi>>, <<ProjectCli, ProjectWeb>>,
    <<ProjectWeb, ProjectWeb>> }

DetailRecords ==
  { [projectId |-> "10", userType |-> "User", name |-> "Alice", email |-> "alice@x.com"],
    [projectId |-> "10", userType |-> "GroupName", name |-> "QA", email |-> ""],
    [projectId |-> "7", userType |-> "User", name |-> "Bob", email |-> "bob@x.com"],
    [projectId |-> "404", userType |-> "User", name |-> "Zed", email |-> "zed@x.com"],
    [projectId |-> "10", userType |-> "Service", name |-> "bot", email |-> ""] }

DetailLists == SeqsUpTo(DetailRecords, MaxPrincipals)

BranchNames == <<"main", "dev", "rel", "hotfix", "exp", "old", "tmp", "wip">>

\* n branches in fetch order, all of project 10 but the k-th, of project 7.
BranchList(n, k) ==
  [i \in 1..n |-> [project |-> IF i = k THEN "7" ELSE "10", name |-> BranchNames[i]]]

BranchLists == { BranchList(n, k) : n \in 0..MaxBranches, k \in 0..MaxBranches }

ApplicationShop == [name |-> "Shop", projects |-> <<"10">>]
ApplicationBank == [name |-> "Bank", projects |-> <<"404", "10", "7">>]

\* An application whose name is the empty string.
ApplicationUnnamed == [name |-> "", projects |-> <<"10">>]

ApplicationLists ==
  { <<>>, <<ApplicationShop>>, <<ApplicationShop, ApplicationBank>>,
    <<ApplicationBank, ApplicationShop>>, <<[name |-> "Lab", projects |-> <<>>]>>,
    <<ApplicationShop, ApplicationUnnamed>> }

Snapshots ==
  { "projectList.json", "userDetailsList.json", "branchesList.json",
    "applicationsList.json" }

\* The state of a snapshot file: its parsed content, or no file.
SnapshotStates(lists) == {NoFile} \cup { OldFile(l) : l \in lists }

InitReport ==
  /\ config = GoodConfig
  /\ dirExists = TRUE
  /\ \E p \in SnapshotStates(ProjectLists), d \in SnapshotStates(DetailLists),
        b \in SnapshotStates(BranchLists), a \in SnapshotStates(ApplicationLists),
        r \in {NoFile, OldFile(<<>>)} :
       files = [f \in Artifacts |->
                  CASE f = "projectList.json" -> p
                    [] f = "userDetailsList.json" -> d
                    [] f = "branchesList.json" -> b
                    [] f = "applicationsList.json" -> a
                    [] f = "finalProjectDetails.csv" -> r
                    [] OTHER -> NoFile]
  /\ rlClosed = FALSE
  /\ mainPc = [at |-> "report", stage |-> "applications"]
  /\ pc = [s \in StageSet |-> "idle"]
  /\ result = [s \in StageSet |-> <<>>]
  /\ authRaw = NoRaw
  /\ authResp = NoResponse
  /\ token = Undefined
  /\ offset = 0
  /\ acc = <<>>
  /\ more = FALSE
  /\ roleIdx = 1
  /\ inflight = {}
  /\ authLog = {}
  /\ authCount = [s \in StageSet |-> 0]
  /\ bearerLog = {}
  /\ issued = [s \in StageSet |-> Undefined]
  /\ stageLog = <<>>
  /\ report = [ReportIdle EXCEPT !.pc = "start"]

\* readLocalFiles: the parsed file, [] when it cannot be read or parsed.
Readable(f) == files[f].kind \in {"old", "new"}
ReadLocalFiles(f) == IF Readable(f) THEN files[f].data ELSE <<>>

\* The object keys that are array indices, with their numbers: Object.values
\* lists them first, in ascending order, then the other keys as inserted.
ArrayIndex(id) ==
  CASE id = "7" -> 7
    [] id = "10" -> 10
    [] id = "404" -> 404
    [] OTHER -> -1

HasKey(map, id) == \E i \in 1..Len(map) : map[i].projectId = id
KeyIndex(map, id) == CHOOSE i \in 1..Len(map) : map[i].projectId = id

\* map[project.id] = {projectName, projectId, type, branches: [], users: [], groups: []}
PutProject(map, project) ==
  LET entry == [projectName |-> project.name, projectId |-> project.id,
                type |-> project.type, branches |-> <<>>, users |-> <<>>,
                groups |-> <<>>]
  IN IF HasKey(map, project.id)
     THEN [map EXCEPT ![KeyIndex(map, project.id)] = entry]
     ELSE Append(map, entry)

RECURSIVE ProjectMap(_)
ProjectMap(projects) ==
  IF projects = <<>> THEN <<>>
  ELSE PutProject(ProjectMap(SubSeq(projects, 1, Len(projects) - 1)),
                  projects[Len(projects)])

RECURSIVE AttachBranchesReversed(_, _)
AttachBranchesReversed(map, branches) ==
  IF branches = <<>> THEN map
  ELSE LET m == AttachBranchesReversed(map, SubSeq(branches, 1, Len(branches) - 1))
           b == branches[Len(branches)]
       IN IF HasKey(m, b.project)
          THEN [m EXCEPT ![KeyIndex(m, b.project)].branches = <<b.name>> \o @]
          ELSE m

\* projectMap[projectId].branches.push(branch.attributes.name), for a known project
RECURSIVE AttachBranches(_, _)
AttachBranches(map, branches) ==
  IF branches = <<>> THEN map
  ELSE LET m == AttachBranches(map, SubSeq(branches, 1, Len(branches) - 1))
           b == branches[Len(branches)]
       IN IF HasKey(m, b.project)
          THEN [m EXCEPT ![KeyIndex(m, b.project)].branches = Append(@, b.name)]
          ELSE m

RECURSIVE AttachDetailsAnyKind(_, _)
AttachDetailsAnyKind(map, details) ==
  IF details = <<>> THEN map
  ELSE LET m == AttachDetailsAnyKind(map, SubSeq(details, 1, Len(details) - 1))
           d == details[Len(details)]
       IN IF ~HasKey(m, d.projectId) THEN m
          ELSE IF d.userType = "User"
          THEN [m EXCEPT ![KeyIndex(m, d.projectId)].users =
                  Append(@, [name |-> d.name, email |-> d.email,
                             type |-> "Individual User"])]
          ELSE [m EXCEPT ![KeyIndex(m, d.projectId)].groups =
                  Append(@, [name |-> d.name, type |-> "Group"])]

\* project.users.push / project.groups.push, for a known project
RECURSIVE AttachDetails(_, _)
AttachDetails(map, details) ==
  IF details = <<>> THEN map
  ELSE LET m == AttachDetails(map, SubSeq(details, 1, Len(details) - 1))
           d == details[Len(details)]
       IN IF ~HasKey(m, d.projectId) THEN m
          ELSE IF d.userType = "User"
          THEN [m EXCEPT ![KeyIndex(m, d.projectId)].users =
                  Append(@, [name |-> d.name, email |-> d.email,
                             type |-> "Individual User"])]
          ELSE IF d.userType = "GroupName"
          THEN [m EXCEPT ![KeyIndex(m, d.projectId)].groups =
                  Append(@, [name |-> d.name, type |-> "Group"])]
          ELSE m

ApplicationNameFirst(names, name) == IF names = <<>> THEN <<name>> ELSE names

\* map[projectId] = application.name: the later assignment replaces the earlier
ApplicationNameLast(names, name) == <<name>>

\* The application names assigned to key id, in the order of the assignments,
\* folded as the assignments are. <<>>: the key was never assigned.
RECURSIVE AssignedInList(_, _, _, _)
AssignedInList(names, name, ids, id) ==
  IF ids = <<>> THEN names
  ELSE LET rest == AssignedInList(names, name, SubSeq(ids, 1, Len(ids) - 1), id)
       IN IF ids[Len(ids)] = id THEN ApplicationNameLast(rest, name) ELSE rest

RECURSIVE ApplicationMap(_, _, _)
ApplicationMap(applications, map, id) ==
  IF applications = <<>> \/ ~HasKey(map, id) THEN <<>>
  ELSE LET a == applications[Len(applications)]
       IN AssignedInList(
            ApplicationMap(SubSeq(applications, 1, Len(applications) - 1), map, id),
            a.name, a.projects, id)

ApplicationNameOrEmpty(assigned) == IF assigned = <<>> THEN "" ELSE assigned[1]

\* applicationMap[project.projectId] || 'No Application Name'
ApplicationName(assigned) ==
  IF assigned = <<>> \/ assigned[1] = "" THEN Sentinel ELSE assigned[1]

SlotsUnpadded(branches) == SubSeq(branches, 1, IF Len(branches) < MaxBranchSlots
                                                THEN Len(branches) ELSE MaxBranchSlots)

\* project.branches.slice(0, maxBranches), padded with '' to maxBranches
Slots(branches) ==
  [i \in 1..MaxBranchSlots |-> IF i <= Len(branches) THEN branches[i] ELSE ""]

\* Object.values(projectMap)
RECURSIVE Ascending(_, _)
Ascending(map, indices) ==
  IF indices = {} THEN <<>>
  ELSE LET least == CHOOSE i \in indices :
                      \A j \in indices :
                        ArrayIndex(map[i].projectId) <= ArrayIndex(map[j].projectId)
       IN <<map[least]>> \o Ascending(map, indices \ {least})

IsNamedKey(entry) == ArrayIndex(entry.projectId) < 0

ObjectValues(map) ==
  Ascending(map, { i \in 1..Len(map) : ArrayIndex(map[i].projectId) >= 0 })
  \o SelectSeq(map, IsNamedKey)

Row(applicationName, entry, type, name, email) ==
  [applicationName |-> applicationName, projectName |-> entry.projectName,
   projectId |-> entry.projectId, type |-> type, name |-> name, email |-> email,
   branches |-> Slots(entry.branches)]

ProjectRowsOfUsers(entry, applicationName) ==
  [i \in 1..Len(entry.users) |->
     Row(applicationName, entry, entry.users[i].type, entry.users[i].name,
         entry.users[i].email)]

\* The rows of one project: its users, then its groups.
ProjectRows(entry, applicationName) ==
  [i \in 1..Len(entry.users) |->
     Row(applicationName, entry, entry.users[i].type, entry.users[i].name,
         entry.users[i].email)]
  \o [i \in 1..Len(entry.groups) |->
        Row(applicationName, entry, entry.groups[i].type, entry.groups[i].name, "")]

RECURSIVE RowsOf(_, _, _)
RowsOf(entries, applications, map) ==
  IF entries = <<>> THEN <<>>
  ELSE ProjectRows(entries[1],
                   ApplicationName(ApplicationMap(applications, map,
                                                  entries[1].projectId)))
       \o RowsOf(Tail(entries), applications, map)

CsvData(projects, details, branches, applications) ==
  LET map == AttachDetails(AttachBranches(ProjectMap(projects), branches), details)
  IN RowsOf(ObjectValues(map), applications, map)

\* The four snapshots are read; a snapshot that cannot be read is [].
ReportRead ==
  /\ report.pc = "start"
  /\ report' = [pc |-> "loaded",
                projects |-> ReadLocalFiles("projectList.json"),
                details |-> ReadLocalFiles("userDetailsList.json"),
                branches |-> ReadLocalFiles("branchesList.json"),
                branchesRead |-> Readable("branchesList.json"),
                applications |-> ReadLocalFiles("applicationsList.json"),
                csvData |-> <<>>]
  /\ UNCHANGED <<world, rlClosed, mainPc, pc, result, locals, inflight, history, stageLog>>

\* The rows are built; allBranches.data.forEach throws when allBranches is
\* the [] of a snapshot that could not be read, and the catch block logs it.
ReportCombine ==
  /\ report.pc = "loaded"
  /\ report' =
       IF report.branchesRead
       THEN [report EXCEPT !.pc = "combined",
                           !.csvData = CsvData(report.projects, report.details,
                                               report.branches, report.applications)]
       ELSE [report EXCEPT !.pc = "failed"]
  /\ UNCHANGED <<world, rlClosed, mainPc, pc, result, locals, inflight, history, stageLog>>

ReportWriteAppending ==
  /\ report.pc = "combined"
  /\ files' = [files EXCEPT !["finalProjectDetails.csv"] = NewFile(@.data \o report.csvData)]
  /\ report' = [report EXCEPT !.pc = "done"]
  /\ UNCHANGED <<config, dirExists, authRaw, rlClosed, mainPc, pc, result, locals,
                 inflight, history, stageLog>>

\* fs.writeFile(outputCsvPath, csvOutput)
ReportWrite ==
  /\ report.pc = "combined"
  /\ files' = [files EXCEPT !["finalProjectDetails.csv"] = NewFile(report.csvData)]
  /\ report' = [report EXCEPT !.pc = "done"]
  /\ UNCHANGED <<config, dirExists, authRaw, rlClosed, mainPc, pc, result, locals,
                 inflight, history, stageLog>>

\* The script is run again: combineDataAndGenerateCsv() starts afresh on the
\* files the earlier run left.
ReportRerun ==
  /\ report.pc = "done"
  /\ report' = [ReportIdle EXCEPT !.pc = "start"]
  /\ UNCHANGED <<world, rlClosed, mainPc, pc, result, locals, inflight, history, stageLog>>

NextReport ==
  \/ ReportRead
  \/ ReportCombine
  \/ ReportWrite
  \/ ReportRerun

SpecReport == InitReport /\ [][NextReport]_vars

(***************************************************************************)
(* Properties.                                                             *)
(***************************************************************************)
FetchStages == {"applications", "projects", "roles", "branches"}
Paginated == {"applications", "projects", "branches"}

\* The stage whose requests and writes stageLog holds.
Observing(s) == mainPc.stage = s /\ mainPc.at # "call"

IsPage(e) == e.kind = "page"
IsResource(e) == e.kind \in {"page", "role"}
IsWrite(e) == e.kind = "write"

PageEvents == SelectSeq(stageLog, IsPage)
LastPage == PageEvents[Len(PageEvents)]

\* The items of the pages received with status 200, in request order.
RECURSIVE Received(_)
Received(events) ==
  IF events = <<>> THEN <<>>
  ELSE (IF Head(events).status = 200
        THEN Page(Head(events).off, Head(events).len)
        ELSE <<>>) \o Received(Tail(events))

RECURSIVE SumLens(_)
SumLens(events) ==
  IF events = <<>> THEN 0
  ELSE (IF Head(events).status = 200 THEN Head(events).len ELSE 0)
       + SumLens(Tail(events))

NonEmpty(v) == v # Undefined /\ v # <<>>
NonBlank(v) == v # Undefined /\ \E i \in 1..Len(v) : ~IsWhitespace(v[i])

PasswordRequest(r) ==
  /\ r.url = Replace(config.authUrlTemplate, "{customer}", config.customer)
  /\ r.data = {"email", "password"}

TokenRequest(r) ==
  /\ r.url = Replace(config.authUrlV2Template, "{customer}", config.customer)
  /\ r.data = {"email", "accesstoken"}

\* C1 as stated: a non-empty password means every authentication request is
\* the password request; an empty password with a non-empty access token
\* means every authentication request is the token request.
C1_Claim ==
  \A r \in authLog :
    IF NonEmpty(config.password)
    THEN PasswordRequest(r)
    ELSE NonEmpty(config.accesstoken) => TokenRequest(r)

\* C1 amended: in every stage, a password that is not blank (not empty after
\* trimming whitespace) means every authentication request is the password
\* request and the token endpoint is never called, also when the access
\* token is set; a blank password with a non-blank access token means every
\* authentication request is the token request.
C1_ModeByNonBlank ==
  \A r \in authLog :
    IF NonBlank(config.password)
    THEN PasswordRequest(r) /\ ~TokenRequest(r)
    ELSE NonBlank(config.accesstoken) => TokenRequest(r) /\ ~PasswordRequest(r)

C1_Witness ==
  /\ NonBlank(config.password)
  /\ NonBlank(config.accesstoken)
  /\ { r.stage : r \in authLog } = FetchStages

\* The value of an access_token cookie: the text between "access_token="
\* and the first ";".
CookieValue(cookie) == SplitFirst(SubSeq(cookie, 3, Len(cookie)), ";")

UsableCookies(h) ==
  IF h.present
  THEN { i \in 1..Len(h.cookies) :
           StartsWithAccessToken(h.cookies[i]) /\ CookieValue(h.cookies[i]) # <<>> }
  ELSE {}

\* C2 as stated: when the header holds an access_token cookie with a
\* non-empty value, that value is the token whatever the body holds; else
\* the body's jwt is the token.
C2_Claim ==
  mainPc.at = "extracted" =>
    IF UsableCookies(authRaw.setCookie) # {}
    THEN \E i \in UsableCookies(authRaw.setCookie) :
           token = CookieValue(authRaw.setCookie.cookies[i])
    ELSE IF Truthy(authRaw.jwt) THEN token = authRaw.jwt ELSE ~Truthy(token)

AuthFailed ==
  authResp.status # -1 /\ (Rejects(authResp.status) \/ ~Truthy(authResp.token))

\* C3: when the authentication of a stage is answered with a non-success
\* status, or with a response that holds no token, the stage has returned
\* the empty collection after exactly one authentication request, without
\* a resource request and without a write, and main starts no later stage.
C3_AuthFailureStops ==
  AuthFailed =>
    /\ pc[mainPc.stage] = "returned"
    /\ result[mainPc.stage] = <<>>
    /\ authCount[mainPc.stage] = 1
    /\ \A i \in 1..Len(stageLog) : ~IsResource(stageLog[i]) /\ ~IsWrite(stageLog[i])
    /\ inflight = {}
    /\ mainPc.at \in {"await", "done"}
    /\ \A i \in (StageIndex(mainPc.stage) + 1)..Len(Stages) : pc[Stages[i]] = "idle"

C3_Witness ==
  /\ AuthFailed
  /\ authResp.status = 200
  /\ mainPc = [at |-> "done", stage |-> "branches"]

Lacks(v) == ~Truthy(v)

RequiredTemplates(s) ==
  CASE s = "applications" ->
         {config.authUrlTemplate, config.authUrlV2Template, config.applicationsUrlTemplate}
    [] s = "projects" ->
         {config.authUrlTemplate, config.authUrlV2Template, config.projectsUrlTemplate}
    [] s = "roles" -> {config.authUrlTemplate, config.authUrlV2Template}
    [] s = "branches" ->
         {config.authUrlTemplate, config.authUrlV2Template, config.branchesUrlTemplate}

StageLacksConfig(s) ==
  \/ ~NonBlank(config.password) /\ ~NonBlank(config.accesstoken)
  \/ Lacks(config.customer)
  \/ \E t \in RequiredTemplates(s) : Lacks(t)

\* C4 as stated: a stage whose configuration lacks both credentials, a
\* required URL template or the tenant sends no HTTP request.
C4_Claim ==
  \A s \in FetchStages :
    StageLacksConfig(s) =>
      /\ authCount[s] = 0
      /\ \A e \in bearerLog : e.stage # s

\* C5 as stated: the authentication endpoint is called at most once in the
\* run and every resource request carries the same token.
C5_Claim ==
  /\ Logins <= 1
  /\ Cardinality({ e.header : e \in bearerLog }) <= 1

\* C5 amended: the token is obtained once per stage: each stage calls the
\* authentication endpoint at most once (so a run calls it at most four
\* times), and every resource request of a stage carries the token that
\* stage extracted.
C5_TokenPerStage ==
  /\ \A s \in StageSet : authCount[s] <= 1
  /\ Logins <= 4
  /\ \A e \in bearerLog :
       /\ Truthy(issued[e.stage])
       /\ e.header = <<"Bearer", " ">> \o issued[e.stage]

C5_Witness ==
  /\ Logins = 4
  /\ { e.stage : e \in bearerLog } = FetchStages
  /\ Cardinality({ e.header : e \in bearerLog }) = 4

\* C6: in the loops of the applications, projects and branches stages the
\* k-th page request carries the offset (k - 1) * page size, and the offset
\* has advanced by the page size once per page received with status 200.
C6_Offsets ==
  \A s \in Paginated :
    Observing(s) =>
      /\ \A k \in 1..Len(PageEvents) : PageEvents[k].off = (k - 1) * Limit(s)
      /\ pc[s] \in {"loop", "pageSent"} =>
           offset = Limit(s) * Cardinality({ k \in 1..Len(PageEvents) :
                                               PageEvents[k].status = 200 })

C6_Witness ==
  /\ Observing("branches")
  /\ Len(PageEvents) = 2
  /\ PageEvents[2].off = BranchesLimit

\* C7: in a loop, the collection is the concatenation of the pages received
\* so far in request order and its length the sum of their lengths; a page
\* of exactly the page size is followed by another request; the collection
\* the stage persists and returns is that concatenation.
C7_Concatenation ==
  \A s \in Paginated :
    Observing(s) =>
      /\ pc[s] \in {"loop", "pageSent"} =>
           /\ acc = Received(PageEvents)
           /\ Len(acc) = SumLens(PageEvents)
      /\ ( /\ pc[s] = "loop"
           /\ PageEvents # <<>>
           /\ LastPage.status = 200
           /\ LastPage.len = Limit(s) ) => more
      /\ (pc[s] = "returned" /\ \E i \in 1..Len(stageLog) : IsWrite(stageLog[i])) =>
           /\ result[s] = Received(PageEvents)
           /\ Len(result[s]) = SumLens(PageEvents)

C7_Witness ==
  /\ Observing("applications")
  /\ pc["applications"] = "returned"
  /\ Len(PageEvents) = 2
  /\ Len(result["applications"]) = 2 * ApplicationsLimit - 1

\* C8 as stated: after a page received with status 200 the loop stops
\* exactly when the page holds fewer items than the page size.
C8_Claim ==
  \A s \in Paginated :
    (Observing(s) /\ pc[s] = "loop" /\ PageEvents # <<>> /\ LastPage.status = 200) =>
      (more <=> ~(LastPage.len < Limit(s)))

\* C8 amended: after a page received with status 200 the loop stops exactly
\* when the page's item count differs from the page size (fewer or more); a
\* page of exactly the page size is always followed by another request.
C8_StopsUnlessFull ==
  \A s \in Paginated :
    (Observing(s) /\ pc[s] = "loop" /\ PageEvents # <<>> /\ LastPage.status = 200) =>
      (more <=> LastPage.len = Limit(s))

C8_Witness ==
  /\ Observing("projects")
  /\ pc["projects"] = "loop"
  /\ PageEvents # <<>>
  /\ LastPage.status = 200
  /\ LastPage.len = ProjectsLimit + 1
  /\ ~more

SnapshotOf(s) ==
  CASE s = "applications" -> "applicationsList.json"
    [] s = "projects" -> "projectList.json"
    [] s = "branches" -> "branchesList.json"

\* C9 as stated: a page request answered with a non-success status after
\* one or more successful pages leaves the stage returning, and persisting,
\* the items of the pages received.
C9_Claim ==
  \A s \in Paginated :
    ( /\ Observing(s)
      /\ pc[s] = "returned"
      /\ Len(PageEvents) >= 2
      /\ LastPage.status = 500
      /\ \A k \in 1..(Len(PageEvents) - 1) : PageEvents[k].status = 200 ) =>
      /\ result[s] = Received(PageEvents)
      /\ result[s] # <<>>
      /\ files[SnapshotOf(s)] = NewFile(result[s])

\* C10: at most one HTTP request is outstanding; a stage function runs only
\* while main awaits it, after every earlier stage has returned and before
\* any later stage has started; an outstanding request belongs to it.
C10_Sequential ==
  /\ Cardinality(inflight) <= 1
  /\ \A s \in StageSet :
       Running(s) =>
         /\ mainPc = [at |-> "await", stage |-> s]
         /\ \A i \in 1..(StageIndex(s) - 1) : pc[Stages[i]] = "returned"
         /\ \A i \in (StageIndex(s) + 1)..Len(Stages) : pc[Stages[i]] = "idle"
  /\ \A q \in inflight : Running(q.stage)

C10_Witness ==
  /\ inflight = {Outstanding("branches", "page")}
  /\ offset = BranchesLimit

\* C11: a stage starts only after the stage before it in the order
\* applications, projects, role assignments, branches, association has
\* returned a non-empty collection; once a fetch stage has returned the empty
\* collection no request is outstanding, main only ends, and after main has
\* ended nothing changes any more.
C11_OrderAndHalt ==
  /\ [](/\ \A i \in 2..Len(Stages) :
             pc[Stages[i]] # "idle" =>
               /\ pc[Stages[i - 1]] = "returned"
               /\ Len(result[Stages[i - 1]]) > 0
        /\ \A s \in FetchStages :
             (pc[s] = "returned" /\ result[s] = <<>>) =>
               /\ inflight = {}
               /\ mainPc \in {[at |-> "await", stage |-> s], [at |-> "done", stage |-> s]})
  /\ [][mainPc.at # "done"]_vars

C11_Witness ==
  /\ mainPc = [at |-> "done", stage |-> "roles"]
  /\ files["userDetailsList.json"] = NewFile(<<>>)
  /\ result["roles"] = <<>>
  /\ pc["branches"] = "idle"
  /\ pc["associate"] = "idle"

\* C12 as stated: whatever the file system, the network and the prompt do,
\* no stage function is left that can never return to main, and none ends by
\* throwing past its boundary.
C12_Claim == \A s \in StageSet : pc[s] \notin {"hung", "threw"}

\* The step is the deletion of file f after the user answered yes or y to the
\* question about f.
DeletedOnYes(f) ==
  \E answer \in Answers :
    /\ ToLowerCase(answer) \in { <<"y", "e", "s">>, <<"y">> }
    /\ stageLog' = Append(stageLog, Event("unlink", 0, answer, 0, 0, f))
    /\ files'[f] = NoFile

\* C13 as stated: no step deletes or overwrites an artifact that exists,
\* userDetailsList.json/.csv, projectBranches.csv and finalProjectDetails.csv
\* included, unless it is the deletion that follows the user's yes to the
\* question about that file.
C13_Claim ==
  [][\A f \in Artifacts : (Exists(f) /\ files'[f] # files[f]) => DeletedOnYes(f)]_vars

\* The artifacts a stage asks about before it fetches.
AskedAbout(s) ==
  CASE s = "applications" -> {"applicationsList.json", "applicationsList.csv"}
    [] s = "branches" -> {"branchesList.json"}
    [] OTHER -> {}

\* C14: a file is deleted at a prompt only on the answer yes or y in any
\* letter case; a stage that has returned while a file it asks about is
\* still the one found at the prompt (the user did not answer yes) has sent
\* no HTTP request and written nothing, has returned the empty collection,
\* and main starts no later stage.
C14_DeclineAborts ==
  /\ \A i \in 1..Len(stageLog) :
       stageLog[i].kind = "unlink" =>
         ToLowerCase(stageLog[i].tok) \in { <<"y", "e", "s">>, <<"y">> }
  /\ \A s \in {"applications", "branches"} :
       (pc[s] = "returned" /\ \E f \in AskedAbout(s) : files[f].kind = "old") =>
         /\ result[s] = <<>>
         /\ authCount[s] = 0
         /\ \A e \in bearerLog : e.stage # s
         /\ \A f \in AskedAbout(s) : files[f].kind # "new"
         /\ inflight = {}
         /\ mainPc \in {[at |-> "await", stage |-> s], [at |-> "done", stage |-> s]}
         /\ \A i \in (StageIndex(s) + 1)..Len(Stages) : pc[Stages[i]] = "idle"

C14_Witness ==
  /\ mainPc = [at |-> "done", stage |-> "applications"]
  /\ files["applicationsList.json"] = NoFile
  /\ files["applicationsList.csv"].kind = "old"
  /\ Len(stageLog) = 1
  /\ stageLog[1].kind = "unlink"
  /\ stageLog[1].tok = <<"Y">>
  /\ authCount["applications"] = 0

\* C15: while projectList.json is the readable file found before the run,
\* the projects stage has sent no authentication and no page request, has
\* asked nothing and logged no request or write, and what it has returned is
\* the content of the file; no step changes the file.
C15_CacheShortCircuit ==
  /\ [](files["projectList.json"].kind = "old" =>
          /\ authCount["projects"] = 0
          /\ \A r \in authLog : r.stage # "projects"
          /\ \A e \in bearerLog : e.stage # "projects"
          /\ pc["projects"] \in {"idle", "start", "returned"}
          /\ Observing("projects") => stageLog = <<>>
          /\ pc["projects"] = "returned" =>
               result["projects"] = files["projectList.json"].data)
  /\ [][files["projectList.json"].kind = "old" =>
          files'["projectList.json"] = files["projectList.json"]]_vars

C15_Witness ==
  /\ files["projectList.json"] = OldFile(<<901, 902>>)
  /\ result["projects"] = <<901, 902>>
  /\ pc["roles"] = "roleSent"
  /\ authCount["projects"] = 0

\* C16 as stated: when main has ended after the association stage, every
\* fetch stage having returned a non-empty collection, the output folder
\* holds finalProjectDetails.csv.
C16_Claim ==
  ( /\ mainPc = [at |-> "done", stage |-> "associate"]
    /\ \A s \in FetchStages : Len(result[s]) > 0 ) =>
    Exists("finalProjectDetails.csv")

(***************************************************************************)
(* Properties of the correlator, over the snapshots it found and the       *)
(* report it wrote.                                                        *)
(***************************************************************************)
Snapshot(f) == IF files[f].kind = "old" THEN files[f].data ELSE <<>>

SnapshotProjects == Snapshot("projectList.json")
SnapshotDetails == Snapshot("userDetailsList.json")
SnapshotBranches == Snapshot("branchesList.json")
SnapshotApplications == Snapshot("applicationsList.json")

ReportWritten == report.pc = "done" /\ files["finalProjectDetails.csv"].kind = "new"
ReportRows == files["finalProjectDetails.csv"].data

InSnapshot(id) == \E i \in 1..Len(SnapshotProjects) : SnapshotProjects[i].id = id

KindLabel(userType) ==
  CASE userType = "User" -> "Individual User"
    [] userType = "GroupName" -> "Group"
    [] OTHER -> "none"

\* The principal record yields a row: its project is in the projects
\* snapshot and its kind is User or GroupName.
Reported(d) == InSnapshot(d.projectId) /\ d.userType \in {"User", "GroupName"}

RowsFor(d) ==
  { k \in 1..Len(ReportRows) :
      /\ ReportRows[k].projectId = d.projectId
      /\ ReportRows[k].name = d.name
      /\ ReportRows[k].type = KindLabel(d.userType) }

RowResolved(row) ==
  \E i \in 1..Len(SnapshotProjects) :
    /\ SnapshotProjects[i].id = row.projectId
    /\ SnapshotProjects[i].name = row.projectName

\* C17 as stated: the report has as many rows as the details snapshot has
\* principal records, and every row carries the id and name of a project of
\* the projects snapshot.
C17_Claim ==
  ReportWritten =>
    /\ Len(ReportRows) = Len(SnapshotDetails)
    /\ \A k \in 1..Len(ReportRows) : RowResolved(ReportRows[k])

\* C17 amended: the report has one row per principal record whose project id
\* is in the projects snapshot and whose kind is User or GroupName, and no
\* row for any other principal record; every row carries the id and name of
\* a project of the projects snapshot, so a project without such a principal
\* has no row.
C17_RowPerKnownPrincipal ==
  ReportWritten =>
    /\ Len(ReportRows) =
         Cardinality({ i \in 1..Len(SnapshotDetails) : Reported(SnapshotDetails[i]) })
    /\ \A d \in DetailRecords :
         Cardinality(RowsFor(d)) =
           IF Reported(d)
           THEN Cardinality({ i \in 1..Len(SnapshotDetails) : SnapshotDetails[i] = d })
           ELSE 0
    /\ \A k \in 1..Len(ReportRows) :
         /\ RowResolved(ReportRows[k])
         /\ \E i \in 1..Len(SnapshotDetails) :
              /\ Reported(SnapshotDetails[i])
              /\ k \in RowsFor(SnapshotDetails[i])

C17_Witness ==
  /\ ReportWritten
  /\ Len(SnapshotProjects) = 2
  /\ Len(SnapshotDetails) = 2
  /\ Len(ReportRows) = 1
  /\ \E i \in 1..2 : SnapshotDetails[i].projectId = "404"

\* The names of the branches of project id, in the order of the snapshot.
RECURSIVE BranchNamesOf(_, _)
BranchNamesOf(branches, id) ==
  IF branches = <<>> THEN <<>>
  ELSE (IF Head(branches).project = id THEN <<Head(branches).name>> ELSE <<>>)
       \o BranchNamesOf(Tail(branches), id)

\* C18: every row has five branch slots; slot i holds the name of the i-th
\* branch of the row's project in the order of the branches snapshot when
\* the project has i branches or more, and the empty string otherwise.
C18_FiveSlots ==
  ReportWritten =>
    \A k \in 1..Len(ReportRows) :
      LET names == BranchNamesOf(SnapshotBranches, ReportRows[k].projectId)
      IN /\ Len(ReportRows[k].branches) = 5
         /\ \A i \in 1..5 :
              ReportRows[k].branches[i] = IF i <= Len(names) THEN names[i] ELSE ""

C18_Witness ==
  /\ ReportWritten
  /\ Len(ReportRows) = 2
  /\ Len(BranchNamesOf(SnapshotBranches, "10")) = 6
  /\ ReportRows[1].projectId = "7"
  /\ ReportRows[1].branches = <<"", "", "", "", "">>
  /\ ReportRows[2].projectId = "10"
  /\ ReportRows[2].branches = <<"main", "dev", "rel", "hotfix", "exp">>

Lists(application, id) ==
  \E j \in 1..Len(application.projects) : application.projects[j] = id

Listing(id) ==
  { i \in 1..Len(SnapshotApplications) : Lists(SnapshotApplications[i], id) }

\* C19: a row whose project id is in no application's project list has the
\* application name "No Application Name".
C19_SentinelName ==
  ReportWritten =>
    \A k \in 1..Len(ReportRows) :
      Listing(ReportRows[k].projectId) = {} =>
        /\ ReportRows[k].applicationName = "No Application Name"
        /\ ReportRows[k].applicationName # ""

C19_Witness ==
  /\ ReportWritten
  /\ SnapshotApplications = <<ApplicationShop>>
  /\ Len(ReportRows) = 2
  /\ \E k \in 1..2 :
       /\ ReportRows[k].projectId = "7"
       /\ ReportRows[k].applicationName = "No Application Name"

\* The last application of the applications snapshot that lists project id.
LastListing(id) == CHOOSE i \in Listing(id) : \A j \in Listing(id) : j <= i

FirstAppearance(id) ==
  CHOOSE i \in 1..Len(SnapshotProjects) :
    /\ SnapshotProjects[i].id = id
    /\ \A j \in 1..(i - 1) : SnapshotProjects[j].id # id

IsOfKind(label, id, row) == row.type = label /\ row.projectId = id

\* The principal names of the rows of project id with the type label, in row
\* order, and those of its records of kind userType in the details snapshot.
RowNames(label, id) ==
  LET Picked(row) == IsOfKind(label, id, row)
      rows == SelectSeq(ReportRows, Picked)
  IN [i \in 1..Len(rows) |-> rows[i].name]

DetailNames(userType, id) ==
  LET Picked(d) == d.userType = userType /\ d.projectId = id
      records == SelectSeq(SnapshotDetails, Picked)
  IN [i \in 1..Len(records) |-> records[i].name]

\* C21 as stated: whatever the project ids, ids made of decimal digits
\* included, the rows of the report are grouped by project in the order in
\* which the projects first appear in the projects snapshot; within a project
\* the user rows precede the group rows, and users and groups keep their
\* order from the details snapshot.
C21_Claim ==
  ReportWritten =>
    /\ \A k, l \in 1..Len(ReportRows) :
         k < l =>
           /\ FirstAppearance(ReportRows[k].projectId)
                <= FirstAppearance(ReportRows[l].projectId)
           /\ ReportRows[k].projectId = ReportRows[l].projectId =>
                ~(ReportRows[k].type = "Group" /\ ReportRows[l].type = "Individual User")
    /\ \A i \in 1..Len(SnapshotProjects) :
         /\ RowNames("Individual User", SnapshotProjects[i].id)
              = DetailNames("User", SnapshotProjects[i].id)
         /\ RowNames("Group", SnapshotProjects[i].id)
              = DetailNames("GroupName", SnapshotProjects[i].id)


\* C22: the rows a run writes are a function of the four snapshot files
\* alone, so a run on the files an earlier run left rewrites the report with
\* the same rows in the same order; no step of a run changes a snapshot file
\* or any artifact other than finalProjectDetails.csv.
C22_Idempotent ==
  /\ [](ReportWritten =>
          ReportRows = CsvData(SnapshotProjects, SnapshotDetails, SnapshotBranches,
                               SnapshotApplications))
  /\ [][files["finalProjectDetails.csv"].kind = "new" =>
          files'["finalProjectDetails.csv"] = files["finalProjectDetails.csv"]]_vars
  /\ [][\A f \in Artifacts \ {"finalProjectDetails.csv"} : files'[f] = files[f]]_vars

\* A second run is about to write over the two rows the first run wrote.
C22_Witness ==
  /\ report.pc = "combined"
  /\ files["finalProjectDetails.csv"].kind = "new"
  /\ Len(files["finalProjectDetails.csv"].data) = 2
  /\ report.csvData = files["finalProjectDetails.csv"].data


\* The snapshots of the scenario: one application listing project 10, whose
\* branches are main and dev in that order, one user Alice and one group QA.
EndToEndInput ==
  /\ SnapshotApplications = <<ApplicationShop>>
  /\ SnapshotProjects = <<ProjectWeb>>
  /\ SnapshotBranches = BranchList(2, 0)
  /\ SnapshotDetails =
       << [projectId |-> "10", userType |-> "User", name |-> "Alice",
           email |-> "alice@x.com"],
          [projectId |-> "10", userType |-> "GroupName", name |-> "QA", email |-> ""] >>

\* C23: on the snapshots of the scenario the report has exactly two rows,
\* both with the application's name and the branch slots main, dev and three
\* empty strings; the first is the Individual User row of Alice with her
\* email, the second the Group row of QA with the empty email.
C23_EndToEnd ==
  (ReportWritten /\ EndToEndInput) =>
    /\ Len(ReportRows) = 2
    /\ \A k \in 1..2 :
         /\ ReportRows[k].applicationName = ApplicationShop.name
         /\ ReportRows[k].projectId = ProjectWeb.id
         /\ ReportRows[k].projectName = ProjectWeb.name
         /\ ReportRows[k].branches = <<"main", "dev", "", "", "">>
    /\ ReportRows[1].type = "Individual User"
    /\ ReportRows[1].name = "Alice"
    /\ ReportRows[1].email = "alice@x.com"
    /\ ReportRows[2].type = "Group"
    /\ ReportRows[2].name = "QA"
    /\ ReportRows[2].email = ""

C23_Witness ==
  /\ ReportWritten
  /\ EndToEndInput
  /\ Len(ReportRows) = 2
  /\ ReportRows[2].type = "Group"


IsRole(e) == e.kind = "role"
RoleEvents == SelectSeq(stageLog, IsRole)

\* The position of the request for the project in the requests of the stage.
RequestOf(project) == CHOOSE k \in 1..Len(RoleEvents) : RoleEvents[k].off = project

\* The record is what the code makes of an included resource of the type.
RecordOf(d, type) ==
  \E inc \in IncludedOptions :
    \E i \in 1..Len(inc) :
      /\ inc[i].type = type
      /\ d.name = inc[i].name
      /\ d.email = IF type = "users" THEN inc[i].email ELSE ""

\* C24: the requests of the role-assignments stage are for the projects of
\* the project list in list order, one each, all of them once the stage has
\* gone through the list; every record collected carries the id and the name
\* of a project whose request was answered with status 200, is a User record
\* with the email of an included users resource or a GroupName record with
\* the empty email of an included groups resource, never a record of another
\* included type; records follow the order of the requests and the users of
\* a project precede its groups.
C24_RoleRequests ==
  Observing("roles") =>
    LET projects == result["projects"]
        details == IF pc["roles"] = "returned" THEN result["roles"] ELSE acc
    IN /\ Len(RoleEvents) <= Len(projects)
       /\ \A k \in 1..Len(RoleEvents) : RoleEvents[k].off = projects[k]
       /\ (pc["roles"] = "returned" /\ Exists("userDetailsList.json")
             /\ files["userDetailsList.json"].kind = "new") =>
            /\ Len(RoleEvents) = Len(projects)
            /\ files["userDetailsList.json"].data = result["roles"]
       /\ \A i \in 1..Len(details) :
            /\ \E k \in 1..Len(RoleEvents) :
                 /\ RoleEvents[k].off = details[i].projectId
                 /\ RoleEvents[k].status = 200
            /\ details[i].projectName = ProjectName(details[i].projectId)
            /\ IF details[i].userType = "User"
               THEN RecordOf(details[i], "users")
               ELSE details[i].userType = "GroupName" /\ details[i].email = ""
                    /\ RecordOf(details[i], "groups")
            /\ details[i].name # RoleOwner.name
       /\ \A i, j \in 1..Len(details) :
            i < j =>
              /\ RequestOf(details[i].projectId) <= RequestOf(details[j].projectId)
              /\ details[i].projectId = details[j].projectId =>
                   ~(details[i].userType = "GroupName" /\ details[j].userType = "User")

\* Two projects, two requests, and the second answered with a group and a
\* user: the user record stands before the group record.
C24_Witness ==
  /\ Observing("roles")
  /\ pc["roles"] = "returned"
  /\ Len(result["projects"]) = 2
  /\ Len(RoleEvents) = 2
  /\ Len(result["roles"]) = 3
  /\ result["roles"][2].userType = "User"
  /\ result["roles"][3].userType = "GroupName"
  /\ result["roles"][3].projectId = result["projects"][2]


\* C25 as stated: every project record that a project collector has written
\* to projectList.json has the fields id, name, type and properties, and its
\* properties are the platform's when these are not empty and the placeholder
\* pair key: value when they are.
C25_Claim ==
  (mainPc.at = "written" /\ files["projectList.json"].kind = "new") =>
    LET written == files["projectList.json"].data
        page == stageLog[1]
    IN /\ Len(written) = Len(page)
       /\ \A i \in 1..Len(written) :
            /\ {"id", "name", "type", "properties"} \subseteq DOMAIN written[i]
            /\ written[i].properties # NoProperties
            /\ written[i].properties =
                 IF page[i].attributes.properties = NoProperties
                 THEN Placeholder
                 ELSE page[i].attributes.properties


\* C26 as stated: when the branches stage of main has found branchesList.json
\* and is about to ask its question, the console interface is open, so that
\* the question is put to the user and answered; the stage is never left
\* waiting on an interface that an earlier stage closed.
C26_Claim ==
  /\ pc["branches"] = "askJson" => ~rlClosed
  /\ pc["branches"] # "hung"


\* The stage has returned on a declined question: a file it asks about is
\* still the one found at the question.
Declined(s) ==
  /\ Observing(s)
  /\ pc[s] = "returned"
  /\ \E f \in AskedAbout(s) : files[f].kind = "old"

\* C27 as stated: a stage that has returned on a declined question has
\* deleted and written no file, so the artifacts are those found when the
\* stage began; in the applications stage, declining the question about
\* applicationsList.csv leaves applicationsList.json in place.
C27_Claim ==
  \A s \in {"applications", "branches"} :
    Declined(s) =>
      \A i \in 1..Len(stageLog) : stageLog[i].kind \notin {"unlink", "write"}


\* The stage has ended with the empty result on a configuration error (no
\* request was sent), on an authentication that failed, or on a resource
\* request that failed.
FailedFetch(s) ==
  /\ Observing(s)
  /\ pc[s] = "returned"
  /\ result[s] = <<>>
  /\ ~Declined(s)
  /\ \/ authCount[s] = 0 /\ (ConfigThrows(s, config) \/ AuthConfig(config).mode = "none")
     \/ authCount[s] = 1 /\ AuthFailed
     \/ \E i \in 1..Len(stageLog) :
          IsResource(stageLog[i]) /\ Rejects(stageLog[i].status)

\* C28 as stated: a fetch stage that has ended with the empty result on a
\* configuration error, an authentication failure or a network error has
\* deleted no file: every artifact found when the stage began is still there.
C28_Claim ==
  \A s \in FetchStages :
    FailedFetch(s) => \A i \in 1..Len(stageLog) : stageLog[i].kind # "unlink"


\* C29: in every stage, a resource request (a page of applications, projects
\* or branches, or the role assignments of a project) comes after the
\* stage's authentication request was answered with a success status and a
\* token that is not empty was extracted from the answer; the request
\* carries that token, and its header is Bearer followed by it.
C29_BearerAfterLogin ==
  /\ \A s \in FetchStages :
       Observing(s) =>
         \A i \in 1..Len(stageLog) :
           IsResource(stageLog[i]) =>
             /\ \E j \in 1..(i - 1) :
                  /\ stageLog[j].kind = "auth"
                  /\ stageLog[j].status # -1
                  /\ ~Rejects(stageLog[j].status)
             /\ authCount[s] = 1
             /\ authResp.status = 200
             /\ stageLog[i].tok # Undefined
             /\ stageLog[i].tok # <<>>
             /\ stageLog[i].tok = authResp.token
             /\ stageLog[i].tok = issued[s]
             /\ [stage |-> s, header |-> <<"Bearer", " ">> \o stageLog[i].tok] \in bearerLog
  /\ \A q \in inflight :
       q.kind # "auth" => Truthy(issued[q.stage]) /\ token = issued[q.stage]
  /\ \A e \in bearerLog : Truthy(issued[e.stage])

\* The role-assignments stage has sent a request with the token of its own
\* login, which is not the token of the applications stage.
C29_Witness ==
  /\ Observing("roles")
  /\ pc["roles"] = "roleSent"
  /\ \E i \in 1..Len(stageLog) :
       /\ stageLog[i].kind = "role"
       /\ stageLog[i].tok = issued["roles"]
  /\ Truthy(issued["applications"])
  /\ issued["roles"] # issued["applications"]


\* A stage is in its pagination loop: between two requests, or waiting for
\* the answer to a page request.
InLoop == \E s \in Paginated : pc[s] \in {"loop", "pageSent"}

WhitespaceOnly(v) == Truthy(v) /\ \A i \in 1..Len(v) : IsWhitespace(v[i])

\* C31: a password or access token that is missing, empty or made of
\* whitespace only counts as absent when the authentication mode is chosen:
\* with such a password and an access token that is not blank every
\* authentication request is the token request, and with both credentials
\* blank no stage sends any request, the first stage returns the empty
\* collection and main starts no other.
C31_BlankIsAbsent ==
  /\ (~NonBlank(config.password) /\ NonBlank(config.accesstoken)) =>
       \A r \in authLog : TokenRequest(r) /\ ~PasswordRequest(r)
  /\ (~NonBlank(config.password) /\ ~NonBlank(config.accesstoken)) =>
       /\ authLog = {}
       /\ bearerLog = {}
       /\ inflight = {}
       /\ Logins = 0
       /\ pc["applications"] = "returned" => result["applications"] = <<>>
       /\ \A s \in StageSet \ {"applications"} : pc[s] = "idle"

\* The password is whitespace only, and the branches stage has sent the
\* token request.
C31_Witness ==
  /\ WhitespaceOnly(config.password)
  /\ NonBlank(config.accesstoken)
  /\ \E r \in authLog : r.stage = "branches" /\ TokenRequest(r)


C33_Claim ==
  ReportWritten =>
    \A k \in 1..Len(ReportRows) :
      Listing(ReportRows[k].projectId) # {} =>
        /\ ReportRows[k].applicationName # Sentinel
        /\ \E i \in Listing(ReportRows[k].projectId) :
             ReportRows[k].applicationName = SnapshotApplications[i].name


\* C34 as stated: a run of the correlator that found one or more of the four
\* snapshots missing or unreadable does not fail: it goes on with the empty
\* collection in place of each such snapshot, and when it has ended the
\* report is written with the rows of the remaining data.
C34_Claim ==
  (\E f \in Snapshots : ~Readable(f)) =>
    /\ report.pc # "failed"
    /\ report.pc = "done" =>
         /\ ReportWritten
         /\ ReportRows = CsvData(ReadLocalFiles("projectList.json"),
                                 ReadLocalFiles("userDetailsList.json"),
                                 ReadLocalFiles("branchesList.json"),
                                 ReadLocalFiles("applicationsList.json"))


\* The number of export rows that stand before those of the i-th application.
RECURSIVE RowsBefore(_, _)
RowsBefore(applications, i) ==
  IF i <= 1 THEN 0
  ELSE RowsBefore(applications, i - 1) + Len(applications[i - 1].projects)

\* C35: each record of the applications snapshot holds the ids of the
\* application's related projects in the order of the platform's answer; the
\* export holds, for the i-th application and its j-th project id, one row
\* with the application's id, name and description and that project id, at
\* the place that the order of the snapshot gives it, and no other row: the
\* number of rows is the sum of the lengths of the project lists, and an
\* application without projects has no row.
C35_ApplicationsExport ==
  mainPc.at = "csvWritten" =>
    LET page == stageLog[1]
        snapshot == files["applicationsList.json"].data
        export == files["applicationsList.csv"].data
    IN /\ Len(snapshot) = Len(page)
       /\ Len(export) = RowsBefore(snapshot, Len(snapshot) + 1)
       /\ \A i \in 1..Len(snapshot) :
            /\ snapshot[i].id = page[i].id
            /\ snapshot[i].name = page[i].attributes.name
            /\ Len(snapshot[i].projects) = Len(page[i].related)
            /\ \A j \in 1..Len(snapshot[i].projects) :
                 /\ snapshot[i].projects[j] = page[i].related[j].id
                 /\ export[RowsBefore(snapshot, i) + j] =
                      [id |-> snapshot[i].id, name |-> snapshot[i].name,
                       description |-> snapshot[i].description,
                       project |-> snapshot[i].projects[j]]
            /\ snapshot[i].projects = <<>> =>
                 \A r \in 1..Len(export) : export[r].id # snapshot[i].id

\* An application with two projects after one with none: two rows, in the
\* order of the project list.
C35_Witness ==
  /\ mainPc.at = "csvWritten"
  /\ Len(files["applicationsList.json"].data) = 2
  /\ files["applicationsList.json"].data[1].projects = <<>>
  /\ files["applicationsList.json"].data[2].projects = <<"7", "10">>
  /\ Len(files["applicationsList.csv"].data) = 2
  /\ files["applicationsList.csv"].data[1].project = "7"
  /\ files["applicationsList.csv"].data[2].project = "10"

====
